---- MODULE Spec2Model ----
(***************************************************************************)
(* Vision board: the export pipeline (canvas-export.ts, VisionBoard.download *)
(* and App.handleDownloadRequest) and the per-slot masked-texture hook       *)
(* (useFadedTexture), as state machines of the browser's event loop.         *)
(*                                                                           *)
(* The event loop is single threaded and run-to-completion: a synchronous    *)
(* function body is broken into steps only so that its intermediate states   *)
(* can be named; while such a body runs ("frame" is not idle) no other task  *)
(* is enabled.                                                               *)
(***************************************************************************)
EXTENDS Integers, Sequences, FiniteSets, TLC

VARIABLES
    \* ---- export pipeline --------------------------------------------------
    appRef,          \* VisionBoard.appRef.current: FALSE = null, TRUE = the pixi app
    selectedSlot,    \* App.selectedSlot: NoSlot, "core" or "dream-0"
    visible,         \* visible flag of every node of the stage subtree
    stage,           \* app.stage transform: [sx, sy, x, y]
    isExporting,     \* App.isExporting
    exportProgress,  \* App.exportProgress, in units of 0.5 (200 = 100%)
    intervals,       \* requests whose progressInterval is set and not cleared
    ticks,           \* number of progress interval callbacks run so far
    req,             \* one record per handleDownloadRequest invocation
    frame,           \* the running call of exportCanvasAsImage, or the idle frame
    blobTasks,       \* requests whose canvas.toBlob callback is queued
    \* ---- masked texture hook ----------------------------------------------
    slot,            \* the slot's configuration as rendered: [image, size, zoom]
    hook,            \* the state of the mounted useFadedTexture instance, per hook
    loads,           \* loadTexture calls that have not settled: [h, gen, id, key, phase]
    urls,            \* every object URL created: hook -> id -> status, instance
    texs,            \* every texture created: hook -> id -> status, instance, key
    nextId,          \* per hook, the id of its next loadTexture call
    loadFailed,      \* TRUE once some load ended without a texture
    \* ---- configuration editing (App) -------------------------------------
    config,          \* App.config: [core, dreams]
    images,          \* App.images: ids of the images in the library
    copiedEffects,   \* App.copiedEffects, or NoEffects
    timer,           \* useDebounce: the pending timeout's argument, or NoTimer
    stored,          \* the document in browser storage, or NoDocument
    saves,           \* number of saveConfigToStorage calls so far
    deletes,         \* handleImageDelete calls waiting for the storage delete
    edits,           \* number of handler calls that wrote the configuration
    rejected,        \* number of add-slot and remove-slot calls that returned early
    \* ---- pure computations -------------------------------------------------
    migration,       \* a persisted document and what loading made of it
    viewport,        \* window size and VisionBoard.scale
    scene,           \* two dream positions and the selection, as rendered
    pixel,           \* one pixel of a masked texture: inputs and alpha factors
    \* ---- rendering ---------------------------------------------------------
    randoms,         \* a seed, Math.sin of it, and the results of seededRandom calls
    layer,           \* effect values of a slot and its main sprite's filter list
    pair             \* an ImageSlot with its two texture hooks, and what it shows

exportVars == <<appRef, selectedSlot, visible, stage, isExporting, exportProgress,
                intervals, ticks, req, frame, blobTasks>>
textureVars == <<slot, hook, loads, urls, texs, nextId, loadFailed>>
configVars == <<config, images, copiedEffects, timer, stored, saves, deletes, edits,
                rejected>>
pureVars == <<migration, viewport, scene, pixel>>
renderVars == <<randoms, layer, pair>>
vars == <<exportVars, textureVars, configVars, pureVars, renderVars>>
\* what the export actions and the texture actions leave alone
outsideExport == <<textureVars, configVars, pureVars, renderVars>>
outsideTexture == <<exportVars, configVars, pureVars, renderVars>>

----------------------------------------------------------------------------
(* Bounds of the model *)

\* number of handleDownloadRequest invocations explored
MaxRequests == 2
\* number of progress interval callbacks explored
MaxTicks == 2
\* number of loadTexture calls explored per hook
MaxLoads == 2

----------------------------------------------------------------------------
(* Program constants *)

POSTER_WIDTH == 1800
POSTER_HEIGHT == 2400
EXPORT_WIDTH == 5400
EXPORT_HEIGHT == 7200
\* z-index from which a node counts as a HUD element
HUD_ZINDEX == 1000
CORE_ZINDEX == 500
DREAM_ZINDEX == 50
DREAM_SELECTED_ZINDEX == 200

NoSlot == "none"
Slots == {"core", "dream-0"}

----------------------------------------------------------------------------
(* The scene graph below app.stage *)

Nodes == {"stage", "stars", "scene", "core", "coreContent", "coreRing",
          "dream-0", "dreamContent", "dreamRing"}

\* HighlightRing returns null unless its slot is selected
RingOf(s) == IF s = "core" THEN "coreRing" ELSE "dreamRing"

\* children of a container, in render order, for the current selection
Children(n, sel) ==
    CASE n = "stage" -> <<"stars", "scene">>
      [] n = "scene" -> <<"core", "dream-0">>
      [] n = "core" -> IF sel = "core" THEN <<"coreContent", "coreRing">>
                                       ELSE <<"coreContent">>
      [] n = "dream-0" -> IF sel = "dream-0" THEN <<"dreamContent", "dreamRing">>
                                             ELSE <<"dreamContent">>
      [] OTHER -> <<>>

\* zIndex of a DreamSlot's container
dreamZIndex(index, isSelected) ==
    IF isSelected THEN DREAM_SELECTED_ZINDEX + index ELSE DREAM_ZINDEX + index

zIndex(n, sel) ==
    CASE n \in {"coreRing", "dreamRing"} -> HUD_ZINDEX
      [] n = "core" -> CORE_ZINDEX
      [] n = "dream-0" -> dreamZIndex(0, sel = "dream-0")
      [] OTHER -> 0

RECURSIVE Descendants(_, _)
Descendants(n, sel) ==
    LET cs == Children(n, sel)
    IN  {cs[i] : i \in 1..Len(cs)} \cup
        UNION {Descendants(cs[i], sel) : i \in 1..Len(cs)}

\* a node is hidden by the export when it is a visible HUD element
IsHud(n, vis, sel) == zIndex(n, sel) >= HUD_ZINDEX /\ vis[n]

RECURSIVE hideHudElements(_, _, _)
RECURSIVE hideChildren(_, _, _, _)
\* the list of nodes hideHudElements(container) hides and returns
hideHudElements(container, vis, sel) ==
    hideChildren(Children(container, sel), 1, vis, sel)
hideChildren(cs, i, vis, sel) ==
    IF i > Len(cs) THEN <<>>
    ELSE (IF IsHud(cs[i], vis, sel) THEN <<cs[i]>> ELSE <<>>)
         \o hideHudElements(cs[i], vis, sel)
         \o hideChildren(cs, i + 1, vis, sel)

SeqToSet(s) == {s[i] : i \in 1..Len(s)}

\* restoreHudElements(elements): every listed node becomes visible
restoreHudElements(elements, vis) ==
    [n \in Nodes |-> IF n \in SeqToSet(elements) THEN TRUE ELSE vis[n]]

----------------------------------------------------------------------------
(* Export pipeline: state *)

Requests == 1..MaxRequests

IdleFrame == [phase |-> "idle", r |-> 0, hidden |-> <<>>,
              orig |-> <<0, 0, 0, 0>>, pre |-> <<0, 0, 0, 0>>,
              preVisible |-> [n \in Nodes |-> TRUE]]

UnusedReq == [pc |-> "unused", promise |-> "none", appWasNull |-> FALSE,
              blob |-> "none", clicked |-> FALSE]

InitExport ==
    /\ appRef = FALSE
    /\ selectedSlot = NoSlot
    /\ visible = [n \in Nodes |-> TRUE]
    /\ stage = <<1, 1, 0, 0>>
    /\ isExporting = FALSE
    /\ exportProgress = 0
    /\ intervals = {}
    /\ ticks = 0
    /\ req = [r \in Requests |-> UnusedReq]
    /\ frame = IdleFrame
    /\ blobTasks = {}

Idle == frame.phase = "idle"

\* requests whose handleDownloadRequest has started and not passed its finally
InFlight == {r \in Requests : req[r].pc \notin {"unused", "done"}}

----------------------------------------------------------------------------
(* Export pipeline: the UI around it *)

\* AppCapture: the pixi application finished initialising and is stored in appRef
AppCapture ==
    /\ Idle
    /\ ~appRef
    /\ appRef' = TRUE
    /\ UNCHANGED <<selectedSlot, visible, stage, isExporting, exportProgress,
                   intervals, ticks, req, frame, blobTasks>>
    /\ UNCHANGED outsideExport

\* setSelectedSlot from a canvas click, the sidebar or Escape: the ring of the
\* deselected slot unmounts and the ring of the selected slot mounts, visible
setSelectedSlot(s) ==
    /\ Idle
    /\ s # selectedSlot
    /\ selectedSlot' = s
    /\ visible' = [n \in Nodes |->
                     IF n \in {RingOf(t) : t \in Slots} THEN TRUE ELSE visible[n]]
    /\ UNCHANGED <<appRef, stage, isExporting, exportProgress, intervals, ticks,
                   req, frame, blobTasks>>
    /\ UNCHANGED outsideExport

\* The export overlay covers the window while isExporting is rendered, so a
\* pointer cannot reach the trigger; a key press on the focused trigger can.
TriggerReachable(via, exporting) == via = "pointer" => ~exporting

\* handleDownloadRequest up to its first await (setTimeout 50)
handleDownloadRequest(r, via) ==
    /\ Idle
    /\ req[r].pc = "unused"
    /\ \A q \in Requests : q < r => req[q].pc # "unused"
    /\ TriggerReachable(via, isExporting)
    /\ isExporting' = TRUE
    /\ exportProgress' = 0
    /\ req' = [req EXCEPT ![r].pc = "wait50"]
    /\ UNCHANGED <<appRef, selectedSlot, visible, stage, intervals, ticks, frame,
                   blobTasks>>
    /\ UNCHANGED outsideExport

\* after the 50 ms timer: setInterval, then visionBoardRef.current.download(),
\* which enters exportCanvasAsImage when appRef is set and only logs otherwise
StartDownload(r) ==
    /\ Idle
    /\ req[r].pc = "wait50"
    /\ intervals' = intervals \cup {r}
    /\ IF appRef
         THEN /\ frame' = [phase |-> "entered", r |-> r, hidden |-> <<>>,
                           orig |-> <<0, 0, 0, 0>>, pre |-> stage,
                           preVisible |-> visible]
              /\ req' = [req EXCEPT ![r].pc = "download"]
              /\ UNCHANGED exportProgress
         ELSE \* download() resolves; handleDownloadRequest resumes after its await
              /\ req' = [req EXCEPT ![r].pc = "pause300", ![r].promise = "resolved",
                                    ![r].appWasNull = TRUE]
              /\ exportProgress' = 200
              /\ UNCHANGED frame
    /\ UNCHANGED <<appRef, selectedSlot, visible, stage, isExporting, ticks,
                   blobTasks>>
    /\ UNCHANGED outsideExport

\* the setExportProgress updater of the progress interval, in units of 0.5
NextProgress(prev) ==
    IF prev < 60 THEN prev + 16
    ELSE IF prev < 120 THEN prev + 8
    ELSE IF prev < 170 THEN prev + 4
    ELSE prev + 1

IntervalTick(r) ==
    /\ Idle
    /\ r \in intervals
    /\ ticks < MaxTicks
    /\ ticks' = ticks + 1
    /\ exportProgress' = NextProgress(exportProgress)
    /\ UNCHANGED <<appRef, selectedSlot, visible, stage, isExporting, intervals,
                   req, frame, blobTasks>>
    /\ UNCHANGED outsideExport

\* a finally block that clears the interval and the progress only
Finally_KeepsExporting(r, pr) ==
    /\ intervals' = intervals \ {r}
    /\ isExporting' = isExporting
    /\ exportProgress' = 0
    /\ req' = [req EXCEPT ![r].pc = "done", ![r].promise = pr]

\* the finally block of handleDownloadRequest
Finally(r, pr) ==
    /\ intervals' = intervals \ {r}
    /\ isExporting' = FALSE
    /\ exportProgress' = 0
    /\ req' = [req EXCEPT ![r].pc = "done", ![r].promise = pr]

\* after the 300 ms pause that follows a resolved download
FinishRequest(r) ==
    /\ Idle
    /\ req[r].pc = "pause300"
    /\ Finally(r, req[r].promise)
    /\ UNCHANGED <<appRef, selectedSlot, visible, stage, ticks, frame, blobTasks>>
    /\ UNCHANGED outsideExport

----------------------------------------------------------------------------
(* exportCanvasAsImage: the synchronous body, one step per statement group *)

exportScaleX == EXPORT_WIDTH \div POSTER_WIDTH
exportScaleY == EXPORT_HEIGHT \div POSTER_HEIGHT

FrameStep(from, to) ==
    /\ frame.phase = from
    /\ frame' = [frame EXCEPT !.phase = to]

\* RenderTexture.create
CreateRenderTexture(ok) ==
    /\ FrameStep("entered", IF ok THEN "created" ELSE "threw")
    /\ UNCHANGED <<appRef, selectedSlot, visible, stage, isExporting,
                   exportProgress, intervals, ticks, req, blobTasks>>
    /\ UNCHANGED outsideExport

\* const hiddenElements = hideHudElements(app.stage)
HideHud ==
    /\ frame.phase = "created"
    /\ LET hidden == hideHudElements("stage", visible, selectedSlot)
       IN  /\ frame' = [frame EXCEPT !.phase = "hidden", !.hidden = hidden]
           /\ visible' = [n \in Nodes |->
                            IF n \in SeqToSet(hidden) THEN FALSE ELSE visible[n]]
    /\ UNCHANGED <<appRef, selectedSlot, stage, isExporting, exportProgress,
                   intervals, ticks, req, blobTasks>>
    /\ UNCHANGED outsideExport

\* save the stage transform, then scale.set(scaleX, scaleY), position.set(0, 0)
ScaleStage ==
    /\ frame.phase = "hidden"
    /\ frame' = [frame EXCEPT !.phase = "scaled", !.orig = stage]
    /\ stage' = <<exportScaleX, exportScaleY, 0, 0>>
    /\ UNCHANGED <<appRef, selectedSlot, visible, isExporting, exportProgress,
                   intervals, ticks, req, blobTasks>>
    /\ UNCHANGED outsideExport

\* app.renderer.render, which may throw
Render(ok) ==
    /\ FrameStep("scaled", IF ok THEN "rendered" ELSE "threw")
    /\ UNCHANGED <<appRef, selectedSlot, visible, stage, isExporting,
                   exportProgress, intervals, ticks, req, blobTasks>>
    /\ UNCHANGED outsideExport

\* restore the stage transform and the HUD elements; reached only after render
RestoreStage ==
    /\ frame.phase = "rendered"
    /\ frame' = [frame EXCEPT !.phase = "restored"]
    /\ stage' = frame.orig
    /\ visible' = restoreHudElements(frame.hidden, visible)
    /\ UNCHANGED <<appRef, selectedSlot, isExporting, exportProgress, intervals,
                   ticks, req, blobTasks>>
    /\ UNCHANGED outsideExport

\* app.renderer.extract.canvas, which may throw
ExtractCanvas(ok) ==
    /\ FrameStep("restored", IF ok THEN "extracted" ELSE "threw")
    /\ UNCHANGED <<appRef, selectedSlot, visible, stage, isExporting,
                   exportProgress, intervals, ticks, req, blobTasks>>
    /\ UNCHANGED outsideExport

\* canvas.toBlob queues its callback as a task; renderTexture.destroy; the body ends
ToBlob ==
    /\ FrameStep("extracted", "finished")
    /\ blobTasks' = blobTasks \cup {frame.r}
    /\ req' = [req EXCEPT ![frame.r].blob = "pending"]
    /\ UNCHANGED <<appRef, selectedSlot, visible, stage, isExporting,
                   exportProgress, intervals, ticks>>
    /\ UNCHANGED outsideExport

\* the promise resolves; download() and then handleDownloadRequest resume:
\* setExportProgress(100) and the 300 ms pause
ExportReturns ==
    /\ frame.phase = "finished"
    /\ frame' = IdleFrame
    /\ req' = [req EXCEPT ![frame.r].pc = "pause300", ![frame.r].promise = "resolved"]
    /\ exportProgress' = 200
    /\ UNCHANGED <<appRef, selectedSlot, visible, stage, isExporting, intervals,
                   ticks, blobTasks>>
    /\ UNCHANGED outsideExport

\* catch: log and rethrow; the promise rejects; handleDownloadRequest catches
\* and runs its finally block
ExportThrows ==
    /\ frame.phase = "threw"
    /\ frame' = IdleFrame
    /\ Finally(frame.r, "rejected")
    /\ UNCHANGED <<appRef, selectedSlot, visible, stage, ticks, blobTasks>>
    /\ UNCHANGED outsideExport

\* the toBlob callback, run as a later task: a null blob is logged, any other
\* blob is downloaded through an anchor click
BlobCallback(r, blob) ==
    /\ Idle
    /\ r \in blobTasks
    /\ blobTasks' = blobTasks \ {r}
    /\ req' = [req EXCEPT ![r].blob = blob,
                          ![r].clicked = (blob # "null")]
    /\ UNCHANGED <<appRef, selectedSlot, visible, stage, isExporting,
                   exportProgress, intervals, ticks, frame>>
    /\ UNCHANGED outsideExport

NextExport ==
    \/ AppCapture
    \/ \E s \in Slots \cup {NoSlot} : setSelectedSlot(s)
    \/ \E r \in Requests, via \in {"pointer", "keyboard"} : handleDownloadRequest(r, via)
    \/ \E r \in Requests : StartDownload(r)
    \/ \E r \in Requests : IntervalTick(r)
    \/ \E r \in Requests : FinishRequest(r)
    \/ \E ok \in BOOLEAN : CreateRenderTexture(ok)
    \/ HideHud
    \/ ScaleStage
    \/ \E ok \in BOOLEAN : Render(ok)
    \/ RestoreStage
    \/ \E ok \in BOOLEAN : ExtractCanvas(ok)
    \/ ToBlob
    \/ ExportReturns
    \/ ExportThrows
    \/ \E r \in Requests, blob \in {"png", "null"} : BlobCallback(r, blob)

----------------------------------------------------------------------------
(* Masked texture hook: useFadedTexture inside ImageSlot of the core slot *)

NoImage == "none"
Images == {"imgA", "imgB"}
\* slot size and zoom, in tenths (10 = 1.0)
SizeValues == {10, 15}
ZoomValues == {10, 20}

\* ImageSlot calls useFadedTexture twice, for its main and its glow texture.
\* The two instances share no state, so one of them is followed; the other
\* differs only in the size it passes (TextureSize).
Hooks == {"main"}

MIN_DIM == IF POSTER_WIDTH < POSTER_HEIGHT THEN POSTER_WIDTH ELSE POSTER_HEIGHT
\* MIN_DIM * 0.48
CORE_BASE_SIZE == (MIN_DIM * 48) \div 100

\* Math.floor(baseSize * sizeMultiplier * (1.2 main | 1.8 glow)) for the core slot
TextureSize(h, size) ==
    (CORE_BASE_SIZE * size * (IF h = "main" THEN 12 ELSE 18)) \div 100

\* the effect's dependency list [imageId, size, zoom] for a rendered slot
Deps(h, s) == <<s.image, TextureSize(h, s.size), s.zoom>>

\* resource ids of one hook: its k-th loadTexture call creates URL k and texture k
Ids == 1..MaxLoads

NoCleanup == [set |-> FALSE, blobUrl |-> 0, texture |-> 0]

\* a hook instance before its first effect; texture 0 is undefined, blobUrl 0 is null
FreshHook(gen) == [texture |-> 0, blobUrl |-> 0, loadingRef |-> FALSE,
                   cleanup |-> NoCleanup, deps |-> <<NoImage, 0, 0>>, gen |-> gen]

NoUrl == [status |-> "none", gen |-> 0]
NoTex == [status |-> "none", gen |-> 0, key |-> <<NoImage, 0, 0>>,
          superseded |-> FALSE]

InitTexture ==
    /\ slot = [image |-> NoImage, size |-> 10, zoom |-> 10]
    /\ hook = [h \in Hooks |-> FreshHook(0)]
    /\ loads = {}
    /\ urls = [h \in Hooks |-> [i \in Ids |-> NoUrl]]
    /\ texs = [h \in Hooks |-> [i \in Ids |-> NoTex]]
    /\ nextId = [h \in Hooks |-> 1]
    /\ loadFailed = FALSE

Mounted == slot.image # NoImage

\* the instance that issued load l is still the mounted one
IsCurrent(l) == Mounted /\ hook[l.h].gen = l.gen

\* the pending loads of the mounted instance of hook h
Pending(h) == {l \in loads : l.h = h /\ l.gen = hook[h].gen}

\* the effect guard without its in-flight check: if (!imageId) return;
ShouldSkipEffect_NoRefGuard(imageId, loading) == imageId = NoImage

\* if (!imageId || loadingRef.current) return;
ShouldSkipEffect(imageId, loading) == imageId = NoImage \/ loading

\* the values the effect's cleanup closes over: the state of the render that
\* ran the effect
Captured(hk) == [set |-> TRUE, blobUrl |-> hk.blobUrl, texture |-> hk.texture]

\* the hook state after its cleanup function ran (setBlobUrl(null) only when the
\* captured blobUrl is set; setTexture(undefined) always)
AfterCleanup(hk) ==
    IF hk.cleanup.set
      THEN [hk EXCEPT !.blobUrl = IF hk.cleanup.blobUrl # 0 THEN 0 ELSE @,
                      !.texture = 0]
      ELSE hk

\* the hook state after a commit whose deps changed: cleanup of the previous
\* effect, then the effect body
AfterEffect(hk, deps) ==
    LET skip == ShouldSkipEffect(deps[1], hk.loadingRef)
    IN  [AfterCleanup(hk) EXCEPT
            !.deps = deps,
            !.loadingRef = IF skip THEN @ ELSE TRUE,
            !.cleanup = IF skip THEN NoCleanup ELSE Captured(hk)]

\* hooks whose effect runs when the slot is rendered as s, and those that
\* call loadTexture
EffectRuns(h, s) == hook[h].deps # Deps(h, s)
Starts(h, s) == EffectRuns(h, s) /\ ~ShouldSkipEffect(s.image, hook[h].loadingRef)

\* the cleanups of the hooks in hs revoke the captured URL and destroy the
\* captured texture
Release(hs) ==
    /\ urls' = [h \in Hooks |-> [i \in Ids |->
                  IF h \in hs /\ hook[h].cleanup.set /\ hook[h].cleanup.blobUrl = i
                    THEN [urls[h][i] EXCEPT !.status = "revoked"]
                    ELSE urls[h][i]]]
    /\ texs' = [h \in Hooks |-> [i \in Ids |->
                  IF h \in hs /\ hook[h].cleanup.set /\ hook[h].cleanup.texture = i
                    THEN [texs[h][i] EXCEPT !.status = "destroyed"]
                    ELSE texs[h][i]]]

NewLoad(h, gen, s) ==
    [h |-> h, gen |-> gen, id |-> nextId[h], key |-> Deps(h, s), phase |-> "blob"]

\* an image is assigned to the empty slot: ImageSlot mounts, both hooks run
\* their effect for the first time
MountImageSlot(s) ==
    /\ ~Mounted
    /\ s.image # NoImage
    /\ \A h \in Hooks : nextId[h] <= MaxLoads
    /\ slot' = s
    /\ hook' = [h \in Hooks |-> AfterEffect(FreshHook(hook[h].gen + 1), Deps(h, s))]
    /\ loads' = loads \cup {NewLoad(h, hook[h].gen + 1, s) : h \in Hooks}
    /\ nextId' = [h \in Hooks |-> nextId[h] + 1]
    /\ UNCHANGED <<urls, texs, loadFailed>>
    /\ UNCHANGED outsideTexture

\* image id, size or zoom of the mounted slot changes: every hook whose deps
\* changed runs its previous cleanup and then its effect
ChangeProps(s) ==
    /\ Mounted
    /\ s.image # NoImage
    /\ s # slot
    /\ LET runs == {h \in Hooks : EffectRuns(h, s)}
           starters == {h \in Hooks : Starts(h, s)}
       IN  /\ \A h \in starters : nextId[h] <= MaxLoads
           /\ slot' = s
           /\ hook' = [h \in Hooks |->
                         IF h \in runs THEN AfterEffect(hook[h], Deps(h, s))
                                       ELSE hook[h]]
           /\ loads' = loads \cup {NewLoad(h, hook[h].gen, s) : h \in starters}
           /\ nextId' = [h \in Hooks |->
                           IF h \in starters THEN nextId[h] + 1 ELSE nextId[h]]
           /\ Release(runs)
    /\ UNCHANGED loadFailed
    /\ UNCHANGED outsideTexture

\* the image is cleared or deleted: ImageSlot unmounts, the cleanup of each
\* hook's last effect runs, the instance's state is dropped
UnmountImageSlot ==
    /\ Mounted
    /\ slot' = [slot EXCEPT !.image = NoImage]
    /\ hook' = [h \in Hooks |-> FreshHook(hook[h].gen)]
    /\ Release(Hooks)
    /\ UNCHANGED <<loads, nextId, loadFailed>>
    /\ UNCHANGED outsideTexture

\* the pending load of hook h that was given resource id i
LoadOf(h, i) == CHOOSE l \in loads : l.h = h /\ l.id = i

\* loadImageFromDB settles: the blob, no such image, or a rejected request
BlobLoaded(h, i, outcome) ==
    /\ \E l \in loads : l.h = h /\ l.id = i /\ l.phase = "blob"
    /\ LET l == LoadOf(h, i)
       IN  IF outcome = "blob"
             THEN \* URL.createObjectURL, setBlobUrl(url), await createFadedTexture
                  /\ loads' = (loads \ {l}) \cup {[l EXCEPT !.phase = "build"]}
                  /\ urls' = [urls EXCEPT ![h][i] =
                                [status |-> "live", gen |-> l.gen]]
                  /\ hook' = IF IsCurrent(l)
                               THEN [hook EXCEPT ![h].blobUrl = i]
                               ELSE hook
                  /\ UNCHANGED loadFailed
             ELSE \* warn or catch; loadingRef.current = false
                  /\ loads' = loads \ {l}
                  /\ hook' = IF IsCurrent(l)
                               THEN [hook EXCEPT ![h].loadingRef = FALSE]
                               ELSE hook
                  /\ loadFailed' = TRUE
                  /\ UNCHANGED urls
    /\ UNCHANGED <<slot, texs, nextId>>
    /\ UNCHANGED outsideTexture

\* createFadedTexture settles: setTexture(tex) or catch; finally clears loadingRef
BuildDone(h, i, ok) ==
    /\ \E l \in loads : l.h = h /\ l.id = i /\ l.phase = "build"
    /\ LET l == LoadOf(h, i)
       IN  /\ loads' = loads \ {l}
           /\ IF ok
                THEN /\ texs' = [texs EXCEPT ![h][i] =
                                   [status |-> "live", gen |-> l.gen, key |-> l.key,
                                    superseded |-> IsCurrent(l)
                                                   /\ hook[h].deps # l.key]]
                     /\ hook' = IF IsCurrent(l)
                                  THEN [hook EXCEPT ![h].texture = i,
                                                    ![h].loadingRef = FALSE]
                                  ELSE hook
                     /\ UNCHANGED loadFailed
                ELSE /\ hook' = IF IsCurrent(l)
                                  THEN [hook EXCEPT ![h].loadingRef = FALSE]
                                  ELSE hook
                     /\ loadFailed' = TRUE
                     /\ UNCHANGED texs
    /\ UNCHANGED <<slot, urls, nextId>>
    /\ UNCHANGED outsideTexture

SlotValues == [image : Images, size : SizeValues, zoom : ZoomValues]

NextTexture ==
    \/ \E s \in SlotValues : MountImageSlot(s)
    \/ \E s \in SlotValues : ChangeProps(s)
    \/ UnmountImageSlot
    \/ \E h \in Hooks, i \in Ids, outcome \in {"blob", "absent", "error"} :
          BlobLoaded(h, i, outcome)
    \/ \E h \in Hooks, i \in Ids, ok \in BOOLEAN : BuildDone(h, i, ok)

----------------------------------------------------------------------------
(* Exact arithmetic: a JavaScript number is modelled by the fraction
   <<numerator, denominator>> in lowest terms with a positive denominator.
   Floating-point rounding is not modelled. *)

Abs(n) == IF n < 0 THEN -n ELSE n

RECURSIVE GCD(_, _)
GCD(a, b) == IF b = 0 THEN a ELSE GCD(b, a % b)

Frac(n, d) ==
    LET g == GCD(Abs(n), Abs(d))
        s == IF d < 0 THEN -1 ELSE 1
    IN  IF n = 0 THEN <<0, 1>> ELSE <<(s * n) \div g, (s * d) \div g>>

Whole(n) == <<n, 1>>
FLess(a, b) == a[1] * b[2] < b[1] * a[2]
FLeq(a, b) == a[1] * b[2] <= b[1] * a[2]
FMin(a, b) == IF FLess(b, a) THEN b ELSE a
FMul(a, b) == Frac(a[1] * b[1], a[2] * b[2])
FAdd(a, b) == Frac(a[1] * b[2] + b[1] * a[2], a[2] * b[2])
FSub(a, b) == Frac(a[1] * b[2] - b[1] * a[2], a[2] * b[2])
FDiv(a, b) == Frac(a[1] * b[2], a[2] * b[1])
\* Math.floor
Floor(a) == a[1] \div a[2]

----------------------------------------------------------------------------
(* The viewport scale: VisionBoard in vision-board/index.tsx *)

SIDEBAR_WIDTH == 320
VIEWPORT_MARGIN == 80

\* window.innerWidth and window.innerHeight values explored
ViewportWidths == {0, 320, 800, 1220, 1920, 2120, 2121, 2560, 3840, 5000}
ViewportHeights == {0, 80, 600, 1080, 1280, 2480, 2481, 3000, 4000, 5000}

\* Math.min(scaleX, scaleY, limit)
MinOfThree_NoLimit(scaleX, scaleY, limit) == FMin(scaleX, scaleY)
MinOfThree(scaleX, scaleY, limit) == FMin(FMin(scaleX, scaleY), limit)

\* the value updateScale hands to setScale
computeViewportScale(width, height) ==
    LET availableWidth == width - SIDEBAR_WIDTH
        availableHeight == height - VIEWPORT_MARGIN
        scaleX == Frac(availableWidth, POSTER_WIDTH)
        scaleY == Frac(availableHeight, POSTER_HEIGHT)
    IN  MinOfThree(scaleX, scaleY, Whole(1))

\* useState(1), before the mount effect has measured a window of any size
InitViewportAt(w, h) ==
    viewport = [width |-> w, height |-> h, scale |-> Whole(1), measured |-> FALSE]

InitViewport == InitViewportAt(1920, 1080)

\* the mount effect's call, or the resize listener after the window changed
updateScale(w, h) ==
    /\ viewport' = [width |-> w, height |-> h,
                    scale |-> computeViewportScale(w, h), measured |-> TRUE]
    /\ UNCHANGED <<exportVars, textureVars, configVars, migration, scene, pixel, renderVars>>

NextViewport == \E w \in ViewportWidths, h \in ViewportHeights : updateScale(w, h)

----------------------------------------------------------------------------
(* Stacking order of the composed scene: VisionBoardScene, CoreSlot,
   DreamSlot and HighlightRing. A container with sortableChildren paints its
   children in ascending zIndex, children of equal zIndex in the order they
   were added, and each child paints its whole subtree before the next
   sibling starts. *)

TOTAL_DREAM_POSITIONS == 14
DreamIndices == 0..(TOTAL_DREAM_POSITIONS - 1)

DreamId(index) == "dream-" \o ToString(index)

\* the slots of a scene, in the order VisionBoardScene renders them
SceneSlots(sc) == <<"core">> \o [k \in 1..Len(sc.dreams) |-> DreamId(sc.dreams[k])]

\* index of a dream slot id among the dreams of the scene
DreamIndexOf(sc, s) == sc.dreams[CHOOSE k \in 1..Len(sc.dreams) : DreamId(sc.dreams[k]) = s]

\* zIndex of a slot's container in the center container
slotZIndex(sc, s) ==
    IF s = "core" THEN CORE_ZINDEX
    ELSE dreamZIndex(DreamIndexOf(sc, s), sc.selectedSlot = s)

\* number of sibling slots painted before slot s
paintRank(sc, s) ==
    LET ss == SceneSlots(sc)
        at(x) == CHOOSE k \in 1..Len(ss) : ss[k] = x
    IN  Cardinality({k \in 1..Len(ss) :
            \/ slotZIndex(sc, ss[k]) < slotZIndex(sc, s)
            \/ slotZIndex(sc, ss[k]) = slotZIndex(sc, s) /\ k < at(s)})

\* position in the paint sequence of a slot's image or placeholder and of
\* its ring: the slot's subtree is painted as a whole, and in it the ring
\* (zIndex 1000) after the image or placeholder (no zIndex)
contentPaintOrder(sc, s) == 2 * paintRank(sc, s)
ringPaintOrder(sc, s) == 2 * paintRank(sc, s) + 1

SceneSelections(a, b) == {NoSlot, "core", DreamId(a), DreamId(b)}

InitScene == scene = [dreams |-> <<0, 1>>, selectedSlot |-> NoSlot]

\* a render of the scene for a configuration holding dreams a and b
renderScene(a, b, sel) ==
    /\ a # b
    /\ sel \in SceneSelections(a, b)
    /\ scene' = [dreams |-> <<a, b>>, selectedSlot |-> sel]
    /\ UNCHANGED <<exportVars, textureVars, configVars, migration, viewport, pixel, renderVars>>

NextScene ==
    \E a \in DreamIndices, b \in DreamIndices,
       sel \in {NoSlot, "core"} \cup {DreamId(i) : i \in DreamIndices} :
        renderScene(a, b, sel)

----------------------------------------------------------------------------
(* The alpha mask of createFadedTexture (vision-board/texture-utils.ts),
   for one pixel of the canvas *)

\* canvas sizes explored (the size argument of createFadedTexture)
MaskSizes == {50}
\* img.width and img.height explored
MaskImages == {<<100, 100>>, <<100, 200>>, <<200, 100>>}
\* zoom explored, in hundredths
MaskZooms == {50, 100, 108, 116, 200}
\* alpha of the pixel after drawImage
SourceAlphas == {0, 128, 255}

Sqr(n) == n * n
IsSquare(n) == \E d \in 0..n : d * d = n
\* Math.sqrt, on the arguments whose root is a whole number
Sqrt(n) == CHOOSE d \in 0..n : d * d = n

\* the pixels of a canvas whose distance to the center is a multiple of 1/2
MaskPixels(size) ==
    {p \in (0..(size - 1)) \X (0..(size - 1)) :
        IsSquare(Sqr(2 * p[1] - size) + Sqr(2 * p[2] - size))}

\* x, y, w, h handed to drawImage
drawnRect(size, img, zoom) ==
    LET minDim == IF img[1] < img[2] THEN img[1] ELSE img[2]
        baseScale == Frac(size, minDim)
        scale == FMul(baseScale, Frac(zoom, 100))
        w == FMul(Whole(img[1]), scale)
        h == FMul(Whole(img[2]), scale)
        x == FDiv(FSub(Whole(size), w), Whole(2))
        y == FDiv(FSub(Whole(size), h), Whole(2))
    IN  [x |-> x, y |-> y, w |-> w, h |-> h]

\* dist / maxRadius
radialRatio(size, px, py) ==
    LET dist2 == Sqrt(Sqr(2 * px - size) + Sqr(2 * py - size))
    IN  Frac(dist2, size)

\* t * t * (3 - 2 * t)
smoothstep(t) == FMul(FMul(t, t), FSub(Whole(3), FMul(Whole(2), t)))

circularAlpha_NoOuterCut(ratio) ==
    IF FLess(ratio, Frac(4, 10)) THEN Whole(1)
    ELSE FSub(Whole(1), smoothstep(FDiv(FSub(ratio, Frac(4, 10)), Frac(6, 10))))
circularAlpha(ratio) ==
    IF FLess(ratio, Frac(4, 10)) THEN Whole(1)
    ELSE IF FLess(Whole(1), ratio) THEN Whole(0)
    ELSE FSub(Whole(1), smoothstep(FDiv(FSub(ratio, Frac(4, 10)), Frac(6, 10))))

\* size * 0.08, and a feather of a fifth of the size
featherSize_Fifth(size) == Frac(size * 20, 100)
featherSize(size) == Frac(size * 8, 100)

\* Math.min(fromLeft, fromRight, fromTop, fromBottom)
minEdgeDist(size, img, zoom, px, py) ==
    LET r == drawnRect(size, img, zoom)
        imgLeft == r.x
        imgRight == FAdd(r.x, r.w)
        imgTop == r.y
        imgBottom == FAdd(r.y, r.h)
        fromLeft == FSub(Whole(px), imgLeft)
        fromRight == FSub(imgRight, Whole(px))
        fromTop == FSub(Whole(py), imgTop)
        fromBottom == FSub(imgBottom, Whole(py))
    IN  FMin(FMin(fromLeft, fromRight), FMin(fromTop, fromBottom))

edgeAlphaOf_NoOutsideCut(feather, edgeDist) ==
    IF ~FLess(Whole(0), feather) THEN Whole(1)
    ELSE IF FLess(edgeDist, feather) THEN smoothstep(FDiv(edgeDist, feather))
    ELSE Whole(1)
edgeAlphaOf(feather, edgeDist) ==
    IF ~FLess(Whole(0), feather) THEN Whole(1)
    ELSE IF FLess(edgeDist, Whole(0)) THEN Whole(0)
    ELSE IF FLess(edgeDist, feather) THEN smoothstep(FDiv(edgeDist, feather))
    ELSE Whole(1)

MaskInput(size, img, zoom, p, src) ==
    [size |-> size, img |-> img, zoom |-> zoom, px |-> p[1], py |-> p[2],
     src |-> src, done |-> FALSE, ratio |-> Whole(0), circularAlpha |-> Whole(1),
     edgeAlpha |-> Whole(1), finalAlpha |-> Whole(1), alpha |-> src]

InitPixel == pixel = MaskInput(50, <<100, 100>>, 100, <<0, 0>>, 255)

\* the pixels some createFadedTexture call is about to mask
MaskInputs ==
    {MaskInput(size, img, zoom, p, src) :
        size \in MaskSizes, img \in MaskImages, zoom \in MaskZooms,
        p \in UNION {MaskPixels(s) : s \in MaskSizes}, src \in SourceAlphas}

\* one iteration of the loop over the pixels of the canvas
maskPixel ==
    LET size == pixel.size
        ratio == radialRatio(size, pixel.px, pixel.py)
        circular == circularAlpha(ratio)
        edge == edgeAlphaOf(featherSize(size),
                            minEdgeDist(size, pixel.img, pixel.zoom, pixel.px, pixel.py))
        final == FMul(circular, edge)
    IN  /\ ~pixel.done
        /\ pixel' = [pixel EXCEPT !.done = TRUE, !.ratio = ratio,
                                  !.circularAlpha = circular, !.edgeAlpha = edge,
                                  !.finalAlpha = final,
                                  !.alpha = Floor(FMul(Whole(pixel.src), final))]
        /\ UNCHANGED <<exportVars, textureVars, configVars, migration, viewport, scene,
                     renderVars>>

NextMask == maskPixel

----------------------------------------------------------------------------
(* Slot configurations (types.ts). Effect values are in hundredths, offsets
   in pixels, rotation in degrees; NoImage is a null image. *)

SlotFields == {"image", "size", "zoom", "opacity", "blur", "glowIntensity",
               "offsetX", "offsetY", "rotation", "saturation", "brightness",
               "contrast", "positionIndex"}

DEFAULT_SLOT_CONFIG ==
    [image |-> NoImage, size |-> 100, zoom |-> 100, opacity |-> 100, blur |-> 0,
     glowIntensity |-> 25, offsetX |-> 0, offsetY |-> 0, rotation |-> 0,
     saturation |-> 100, brightness |-> 100, contrast |-> 100,
     positionIndex |-> 0]

\* { ...base, ...over }
Spread(base, over) ==
    [f \in (DOMAIN base) \cup (DOMAIN over) |->
        IF f \in DOMAIN over THEN over[f] ELSE base[f]]

\* { ...slot, [field]: value }
With(s, field, value) ==
    [f \in (DOMAIN s) \cup {field} |-> IF f = field THEN value ELSE s[f]]

----------------------------------------------------------------------------
(* Loading a persisted document: migrateConfigWithDefaults (App.tsx) *)

\* an absent key, a JSON null, a JSON array, and storage without a document
Missing == [absent |-> TRUE]
Null == [null |-> TRUE]
Array(items) == [items |-> items]
NoDocument == [nothing |-> TRUE]

\* number of entries of a persisted dreams array explored
MaxSavedDreams == 2
\* positionIndex values of persisted dream entries explored
SavedPositions == 0..2

\* a slot as some version of the application saved it: every value differs
\* from the default of its field
SavedValues ==
    [image |-> "imgA", size |-> 150, zoom |-> 200, opacity |-> 50, blur |-> 300,
     glowIntensity |-> 80, offsetX |-> 40, offsetY |-> -40, rotation |-> 90,
     saturation |-> 120, brightness |-> 110, contrast |-> 130,
     positionIndex |-> 0]

\* the sets of fields a persisted slot may hold
SavedFieldSets ==
    {{}, SlotFields, SlotFields \ {"positionIndex"},
     SlotFields \ {"saturation", "brightness", "contrast"},
     {"image", "positionIndex"}, {"image"}}

Restrict(s, fields) == [f \in fields |-> s[f]]

SavedSlots ==
    {Restrict(With(SavedValues, "positionIndex", p), fields) :
        p \in SavedPositions, fields \in SavedFieldSets}

SavedCores == {Missing, Null} \cup
    {Restrict(With(SavedValues, "positionIndex", -1), fields) : fields \in SavedFieldSets}
    \cup {Restrict(DEFAULT_SLOT_CONFIG, SlotFields)}

SavedDreamEntries == {Null} \cup SavedSlots

SavedDreamArrays ==
    {Missing, Null} \cup
    {Array(ds) : ds \in UNION {[1..n -> SavedDreamEntries] : n \in 0..MaxSavedDreams}}

SavedDocuments ==
    {[core |-> c, dreams |-> d] : c \in SavedCores, d \in SavedDreamArrays}

\* JSON.stringify of a configuration held in memory, as JSON.parse reads it
\* back: every field of every slot holds a string, a number or null, so every
\* key is written
serialize(cfg) ==
    [core |-> Restrict(cfg.core, DOMAIN cfg.core),
     dreams |-> Array([k \in 1..Len(cfg.dreams) |->
                          Restrict(cfg.dreams[k], DOMAIN cfg.dreams[k])])]

\* value || {}  and  value || []
OrEmptyObject(v) == IF v = Missing \/ v = Null THEN [f \in {} |-> Null] ELSE v
OrEmptyArray(v) == IF v = Missing \/ v = Null THEN <<>> ELSE v.items

\* slot.positionIndex ?? defaultPosition, for a positionIndex that is a
\* number wherever it is present
PositionOr(saved, defaultPosition) ==
    IF "positionIndex" \in DOMAIN saved THEN saved["positionIndex"] ELSE defaultPosition

migrateSlot_DefaultsWin(saved, defaultPosition) ==
    With(Spread(saved, DEFAULT_SLOT_CONFIG), "positionIndex",
         PositionOr(saved, defaultPosition))
migrateSlot(saved, defaultPosition) ==
    With(Spread(DEFAULT_SLOT_CONFIG, saved), "positionIndex",
         PositionOr(saved, defaultPosition))

migrateConfigWithDefaults(data) ==
    LET ds == OrEmptyArray(data.dreams)
    IN  [core |-> migrateSlot(OrEmptyObject(data.core), -1),
         dreams |-> [k \in 1..Len(ds) |->
                        migrateSlot(OrEmptyObject(ds[k]),
                                    PositionOr(OrEmptyObject(ds[k]), k - 1))]]

\* App's useState initial value
InitialConfig == [core |-> DEFAULT_SLOT_CONFIG, dreams |-> <<>>]

MigrationOf(doc) == [saved |-> doc, loaded |-> FALSE, config |-> InitialConfig]

InitMigration == migration = MigrationOf(NoDocument)

\* the mount effect's fetchData: loadConfigFromStorage, then migrate and set
fetchData ==
    /\ ~migration.loaded
    /\ migration' = [migration EXCEPT
          !.loaded = TRUE,
          !.config = IF migration.saved = NoDocument THEN migration.config
                     ELSE migrateConfigWithDefaults(migration.saved)]
    /\ UNCHANGED <<exportVars, textureVars, configVars, viewport, scene, pixel, renderVars>>

NextMigration == fetchData

----------------------------------------------------------------------------
(* Editing the configuration: the handlers of App (App.tsx) and the
   debounced save (hooks/useDebounce.ts) *)

\* the largest dream position the handlers are called with
MaxPosition == 1
\* number of handler calls that write the configuration explored
MaxEdits == 2
\* number of handleImageDelete calls explored
MaxDeletes == 1
\* number of saves to storage explored
MaxSaves == 1
\* number of entries of EFFECT_PRESETS the handlers are called with
MaxPresets == 1
\* number of add-slot and remove-slot calls that return early explored
MaxRejected == 1

ConfigPositions == {p \in DreamIndices : p <= MaxPosition}
SlotIds == {"core"} \cup {DreamId(p) : p \in ConfigPositions}
\* the images of the library
ConfigImages == {"imgA"}
\* the slider changes explored: property and value
PropertyEdits == {<<"zoom", 200>>}

EffectFields == SlotFields \ {"image", "positionIndex"}

EFFECT_PRESETS ==
    <<[blur |-> 300, glowIntensity |-> 60, saturation |-> 85, brightness |-> 110],
      [saturation |-> 140, contrast |-> 120, brightness |-> 105, glowIntensity |-> 40],
      [brightness |-> 85, contrast |-> 130, saturation |-> 70, glowIntensity |-> 15],
      [glowIntensity |-> 120, blur |-> 200, brightness |-> 110, opacity |-> 95],
      [opacity |-> 70, size |-> 85, glowIntensity |-> 15],
      [size |-> 130, glowIntensity |-> 50, contrast |-> 110]>>

PresetIndices == {k \in 1..Len(EFFECT_PRESETS) : k <= MaxPresets}

\* resetEffects and applyPreset of types.ts
resetEffects(s) ==
    With(With(DEFAULT_SLOT_CONFIG, "image", s.image), "positionIndex", s.positionIndex)
\* applyPreset, and its variant that does not reset to the defaults first
applyPreset_KeepsOld(s, preset) == Spread(s, preset)
applyPreset(s, preset) == Spread(resetEffects(s), preset)

\* parseInt(slotId.split("-")[1] || "0", 10)
positionOf(slotId) == CHOOSE p \in DreamIndices : DreamId(p) = slotId
IsDreamId(slotId) == \E p \in DreamIndices : DreamId(p) = slotId

usedPositions(cfg) == {cfg.dreams[k].positionIndex : k \in 1..Len(cfg.dreams)}

\* usedPositions.has(positionIndex)
positionInUse_Never(cfg, positionIndex) == FALSE
positionInUse(cfg, positionIndex) == positionIndex \in usedPositions(cfg)

\* [...dreams, newSlot].sort((a, b) => a.positionIndex - b.positionIndex):
\* a stable insertion of the new last element into dreams
RECURSIVE SortByPosition(_)
SortByPosition(ds) ==
    IF Len(ds) <= 1 THEN ds
    ELSE LET front == SortByPosition(SubSeq(ds, 1, Len(ds) - 1))
             last == ds[Len(ds)]
             before == SelectSeq(front, LAMBDA d : d.positionIndex <= last.positionIndex)
             after == SelectSeq(front, LAMBDA d : d.positionIndex > last.positionIndex)
         IN  before \o <<last>> \o after

\* the slots of a configuration: the arguments an updater can be called with
slotsOf(cfg) ==
    {cfg.core} \cup {cfg.dreams[k] : k \in 1..Len(cfg.dreams)}

\* an updater is a function on the slots of the configuration it is applied to
updateDreamByPosition(dreams, positionIndex, updater) ==
    [k \in 1..Len(dreams) |->
        IF dreams[k].positionIndex = positionIndex THEN updater[dreams[k]]
        ELSE dreams[k]]

\* the configuration a handler builds for a slot id, or the one it was given
\* where the handler returns early
updateSlot(cfg, slotId, updater) ==
    IF slotId = "core" THEN [cfg EXCEPT !.core = updater[cfg.core]]
    ELSE IF IsDreamId(slotId)
    THEN [cfg EXCEPT !.dreams = updateDreamByPosition(cfg.dreams, positionOf(slotId), updater)]
    ELSE cfg

\* getSlotConfigById; Null when there is no such slot
getSlotConfigById(cfg, slotId) ==
    IF slotId = "core" THEN cfg.core
    ELSE IF IsDreamId(slotId) /\ positionOf(slotId) \in usedPositions(cfg)
    THEN cfg.dreams[CHOOSE k \in 1..Len(cfg.dreams) :
                        /\ cfg.dreams[k].positionIndex = positionOf(slotId)
                        /\ \A j \in 1..(k - 1) :
                              cfg.dreams[j].positionIndex # positionOf(slotId)]
    ELSE Null

NoEffects == [none |-> TRUE]

\* ---- useDebounce ----------------------------------------------------------

SAVE_DELAY == 300
\* the step of the clock
TickLength == SAVE_DELAY \div 2

\* debouncedFn(...args): clearTimeout of the pending timeout, then setTimeout
debouncedFn_NoClear(pending, args) == pending \cup {[args |-> args, remaining |-> SAVE_DELAY]}
debouncedFn(pending, args) == {[args |-> args, remaining |-> SAVE_DELAY]}

debouncedSave(cfg) ==
    timer' = [pending |-> debouncedFn(timer.pending, cfg), quiet |-> 0]

\* a board saved by an earlier session: the core and one dream hold an image
SavedBoard ==
    [core |-> With(DEFAULT_SLOT_CONFIG, "image", "imgA"),
     dreams |-> <<With(DEFAULT_SLOT_CONFIG, "image", "imgA")>>]

\* the state after the mount effect's fetchData, for a storage that holds
\* the document doc, loaded as cfg
InitConfigWith(cfg, doc) ==
    /\ config = cfg
    /\ stored = doc
    /\ images = ConfigImages
    /\ copiedEffects = NoEffects
    /\ timer = [pending |-> {}, quiet |-> SAVE_DELAY]
    /\ saves = 0
    /\ deletes = [inFlight |-> {}, started |-> 0]
    /\ edits = 0
    /\ rejected = 0

InitConfig == InitConfigWith(InitialConfig, NoDocument)

InitConfigSaved ==
    InitConfigWith(migrateConfigWithDefaults(serialize(SavedBoard)), serialize(SavedBoard))

notConfig == <<appRef, visible, stage, isExporting, exportProgress, intervals,
               ticks, req, frame, blobTasks, textureVars, pureVars, renderVars>>

\* one more handler call that writes the configuration
Edited ==
    /\ edits < MaxEdits
    /\ edits' = edits + 1

\* setConfig(newConfig); debouncedSave(newConfig)
Write(newConfig) ==
    /\ config' = newConfig
    /\ debouncedSave(newConfig)

\* ---- handlers ---------------------------------------------------------------

\* the slots VisionBoardScene and the Sidebar render: the core and the dreams
\* of the configuration
renderedSlots(cfg) == {"core"} \cup {DreamId(p) : p \in usedPositions(cfg)}

\* the click is on a slot the scene renders
handleSlotClick(slotId) ==
    /\ slotId \in renderedSlots(config)
    /\ selectedSlot' = IF selectedSlot = slotId THEN NoSlot ELSE slotId
    /\ UNCHANGED <<config, images, copiedEffects, timer, stored, saves, deletes>>
    /\ UNCHANGED <<edits, rejected, notConfig>>

\* Sidebar's accordion: onSlotClick(value), value "" when the item collapses
sidebarSlotClick(slotId) ==
    /\ slotId \in renderedSlots(config) \cup {NoSlot}
    /\ selectedSlot' = slotId
    /\ UNCHANGED <<config, images, copiedEffects, timer, stored, saves, deletes>>
    /\ UNCHANGED <<edits, rejected, notConfig>>

addedConfig(cfg, positionIndex) ==
    [cfg EXCEPT !.dreams =
        SortByPosition(Append(cfg.dreams,
                              With(DEFAULT_SLOT_CONFIG, "positionIndex", positionIndex)))]

handleAddSlot(positionIndex) ==
    IF positionInUse(config, positionIndex)
    THEN /\ rejected < MaxRejected
         /\ rejected' = rejected + 1
         /\ UNCHANGED <<config, images, copiedEffects, timer, stored, saves, deletes,
                        edits, selectedSlot>>
         /\ UNCHANGED notConfig
    ELSE /\ Edited
         /\ Write(addedConfig(config, positionIndex))
         /\ selectedSlot' = DreamId(positionIndex)
         /\ UNCHANGED <<images, copiedEffects, stored, saves, deletes>>
         /\ UNCHANGED <<rejected, notConfig>>

removedConfig(cfg, positionIndex) ==
    [cfg EXCEPT !.dreams = SelectSeq(cfg.dreams, LAMBDA d : d.positionIndex # positionIndex)]

handleRemoveSlot(positionIndex) ==
    IF ~(positionIndex \in usedPositions(config))
    THEN /\ rejected < MaxRejected
         /\ rejected' = rejected + 1
         /\ UNCHANGED <<config, images, copiedEffects, timer, stored, saves, deletes,
                        edits, selectedSlot>>
         /\ UNCHANGED notConfig
    ELSE /\ Edited
         /\ Write(removedConfig(config, positionIndex))
         /\ selectedSlot' = IF selectedSlot = DreamId(positionIndex) THEN NoSlot
                            ELSE selectedSlot
         /\ UNCHANGED <<images, copiedEffects, stored, saves, deletes>>
         /\ UNCHANGED <<rejected, notConfig>>

clearedConfig_EveryImage(cfg, slotId) ==
    [core |-> With(cfg.core, "image", NoImage),
     dreams |-> [k \in 1..Len(cfg.dreams) |-> With(cfg.dreams[k], "image", NoImage)]]
clearedConfig(cfg, slotId) ==
    updateSlot(cfg, slotId, [s \in slotsOf(cfg) |-> With(s, "image", NoImage)])

handleClearSlot(slotId) ==
    /\ Edited
    /\ Write(clearedConfig(config, slotId))
    /\ UNCHANGED <<images, copiedEffects, stored, saves, deletes, selectedSlot>>
    /\ UNCHANGED <<rejected, notConfig>>

handleResetEffects(slotId) ==
    /\ Edited
    /\ Write(updateSlot(config, slotId, [s \in slotsOf(config) |-> resetEffects(s)]))
    /\ UNCHANGED <<images, copiedEffects, stored, saves, deletes, selectedSlot>>
    /\ UNCHANGED <<rejected, notConfig>>

handleCopyEffects(slotId) ==
    LET slotConfig == getSlotConfigById(config, slotId)
    IN  /\ copiedEffects' = IF slotConfig = Null THEN copiedEffects
                            ELSE Restrict(slotConfig, DOMAIN slotConfig \ {"image", "positionIndex"})
        /\ UNCHANGED <<config, images, timer, stored, saves, deletes, selectedSlot>>
        /\ UNCHANGED <<edits, rejected, notConfig>>

handlePasteEffects(slotId) ==
    /\ copiedEffects # NoEffects
    /\ Edited
    /\ Write(updateSlot(config, slotId, [s \in slotsOf(config) |-> Spread(s, copiedEffects)]))
    /\ UNCHANGED <<images, copiedEffects, stored, saves, deletes, selectedSlot>>
    /\ UNCHANGED <<rejected, notConfig>>

handleApplyPreset(slotId, k) ==
    /\ Edited
    /\ Write(updateSlot(config, slotId, [s \in slotsOf(config) |-> applyPreset(s, EFFECT_PRESETS[k])]))
    /\ UNCHANGED <<images, copiedEffects, stored, saves, deletes, selectedSlot>>
    /\ UNCHANGED <<rejected, notConfig>>

handleImageSelect(filename) ==
    /\ filename \in images
    /\ selectedSlot # NoSlot
    /\ Edited
    /\ Write(updateSlot(config, selectedSlot, [s \in slotsOf(config) |-> With(s, "image", filename)]))
    /\ UNCHANGED <<images, copiedEffects, stored, saves, deletes, selectedSlot>>
    /\ UNCHANGED <<rejected, notConfig>>

handleImageDrop(slotId, filename) ==
    /\ filename \in images
    /\ slotId \in renderedSlots(config)
    /\ Edited
    /\ Write(updateSlot(config, slotId, [s \in slotsOf(config) |-> With(s, "image", filename)]))
    /\ selectedSlot' = slotId
    /\ UNCHANGED <<images, copiedEffects, stored, saves, deletes>>
    /\ UNCHANGED <<rejected, notConfig>>

\* both setConfig updaters run in order on the state of the moment
handleSlotPropertyChange(slotId, edit) ==
    /\ Edited
    /\ Write(updateSlot(config, slotId, [s \in slotsOf(config) |-> With(s, edit[1], edit[2])]))
    /\ UNCHANGED <<images, copiedEffects, stored, saves, deletes, selectedSlot>>
    /\ UNCHANGED <<rejected, notConfig>>

\* handleImageDelete up to its await: the call keeps the images and the
\* config of the render it was created in
handleImageDelete(imageId) ==
    /\ imageId \in images
    /\ deletes.started < MaxDeletes
    /\ deletes' = [inFlight |-> deletes.inFlight \cup
                        {[imageId |-> imageId, images |-> images, config |-> config]},
                   started |-> deletes.started + 1]
    /\ UNCHANGED <<config, images, copiedEffects, timer, stored, saves, selectedSlot>>
    /\ UNCHANGED <<edits, rejected, notConfig>>

withoutImage(cfg, imageId) ==
    [core |-> IF cfg.core.image = imageId THEN With(cfg.core, "image", NoImage)
              ELSE cfg.core,
     dreams |-> [k \in 1..Len(cfg.dreams) |->
                    IF cfg.dreams[k].image = imageId
                    THEN With(cfg.dreams[k], "image", NoImage) ELSE cfg.dreams[k]]]

TheDelete(imageId) == CHOOSE d \in deletes.inFlight : d.imageId = imageId

\* handleImageDelete after its await: deleteImageFromStorage resolved or threw
imageDeleteSettles(imageId, ok) ==
    /\ \E d \in deletes.inFlight : d.imageId = imageId
    /\ deletes' = [deletes EXCEPT !.inFlight = @ \ {TheDelete(imageId)}]
    /\ IF ok
       THEN /\ images' = TheDelete(imageId).images \ {imageId}
            /\ Write(withoutImage(TheDelete(imageId).config, imageId))
       ELSE UNCHANGED <<config, images, timer>>
    /\ UNCHANGED <<copiedEffects, stored, saves, selectedSlot>>
    /\ UNCHANGED <<edits, rejected, notConfig>>

\* ---- time and the timeout callback ----------------------------------------

Due(t) == t.remaining = 0

\* time passes while no timeout is due
Tick ==
    /\ timer.pending # {}
    /\ \A t \in timer.pending : ~Due(t)
    /\ timer' = [timer EXCEPT
          !.pending = {[t EXCEPT !.remaining = @ - TickLength] : t \in timer.pending},
          !.quiet = IF @ + TickLength > SAVE_DELAY THEN SAVE_DELAY ELSE @ + TickLength]
    /\ UNCHANGED <<config, images, copiedEffects, stored, saves, deletes,
                   edits, selectedSlot>>
    /\ UNCHANGED <<rejected, notConfig>>

\* the timeout callback: fnRef.current(...args), which is saveConfigToServer;
\* localStorage is taken to accept the write
timeoutFires ==
    /\ \E t \in timer.pending : Due(t)
    /\ saves < MaxSaves
    /\ LET t == CHOOSE u \in timer.pending : Due(u)
       IN  /\ stored' = serialize(t.args)
           /\ timer' = [timer EXCEPT !.pending = @ \ {t}]
    /\ saves' = saves + 1
    /\ UNCHANGED <<config, images, copiedEffects, deletes, selectedSlot>>
    /\ UNCHANGED <<edits, rejected, notConfig>>

NextConfig ==
    \/ \E s \in SlotIds : handleSlotClick(s)
    \/ \E s \in SlotIds \cup {NoSlot} : sidebarSlotClick(s)
    \/ \E p \in ConfigPositions : handleAddSlot(p)
    \/ \E p \in ConfigPositions : handleRemoveSlot(p)
    \/ \E s \in SlotIds : handleClearSlot(s)
    \/ \E s \in SlotIds : handleResetEffects(s)
    \/ \E s \in SlotIds : handleCopyEffects(s)
    \/ \E s \in SlotIds : handlePasteEffects(s)
    \/ \E s \in SlotIds, k \in PresetIndices : handleApplyPreset(s, k)
    \/ \E f \in ConfigImages : handleImageSelect(f)
    \/ \E s \in SlotIds, f \in ConfigImages : handleImageDrop(s, f)
    \/ \E s \in SlotIds, e \in PropertyEdits : handleSlotPropertyChange(s, e)
    \/ \E f \in ConfigImages : handleImageDelete(f)
    \/ \E f \in ConfigImages, ok \in BOOLEAN : imageDeleteSettles(f, ok)
    \/ Tick
    \/ timeoutFires

----------------------------------------------------------------------------
(* seededRandom in vision-board/constants.ts.  Math.sin is a fixed function
   of its argument with values in [-1, 1]; its value for the seed is drawn
   once and every call reads it.  Exact arithmetic. *)

\* number of calls of seededRandom followed
MaxCalls == 3

\* seeds explored: the callers pass index * k for small indices
Seeds == {-7, -1, 0, 1, 7, 13, 17, 23}

\* values Math.sin(seed * 9999) may have, as fractions
SinValues ==
    {Frac(n, 100000) : n \in {-100000, -99999, -50001, -12345, -1, 0,
                              1, 33333, 65432, 99999, 100000}}

\* Math.sin(0) is 0
SinValuesOf(seed) == IF seed = 0 THEN {Whole(0)} ELSE SinValues

\* seededRandom without the subtraction of Math.floor(x)
seededRandom_NoFloor(seed, sin) == FMul(sin, Whole(10000))
\* seededRandom(seed), given the value sin of Math.sin(seed * 9999)
seededRandom(seed, sin) ==
    LET x == FMul(sin, Whole(10000))
    IN  FSub(x, Whole(Floor(x)))

InitRandoms == randoms = [seed |-> 0, sin |-> Whole(0), results |-> <<>>]

RandomInputs ==
    {[seed |-> seed, sin |-> sin, results |-> <<>>] :
        seed \in Seeds, sin \in SinValues} \ 
    {[seed |-> 0, sin |-> sin, results |-> <<>>] : sin \in SinValues \ {Whole(0)}}

\* one more call of seededRandom with the seed
callSeededRandom ==
    /\ Len(randoms.results) < MaxCalls
    /\ randoms' = [randoms EXCEPT
                     !.results = Append(@, seededRandom(randoms.seed, randoms.sin))]
    /\ UNCHANGED <<exportVars, textureVars, configVars, pureVars, layer, pair>>

NextRandoms == callSeededRandom

----------------------------------------------------------------------------
(* The main layer's filter list: ImageSlot in SlotComponents.tsx.  Effect
   values are in hundredths, as in DEFAULT_SLOT_CONFIG. *)

BlurValues == {0, 50, 200, 800}
ColorValues == {0, 100, 150}

NoFilters == [attached |-> FALSE, list |-> <<>>]

\* new BlurFilter({ strength: blurAmount, quality: 4 })
imageBlurFilter(blurAmount) == [kind |-> "blur", strength |-> blurAmount]

\* the ColorMatrixFilter with the adjustments made to it, in order
colorFilter(saturation, brightness, contrast) ==
    [kind |-> "color",
     ops |-> (IF saturation # 100 THEN <<"saturate">> ELSE <<>>)
             \o (IF brightness # 100 THEN <<"brightness">> ELSE <<>>)
             \o (IF contrast # 100 THEN <<"contrast">> ELSE <<>>)]

\* blurAmount > 0, and its variant that takes any blur value
needsBlur_Always(blurAmount) == TRUE
needsBlur(blurAmount) == blurAmount > 0

needsColor(saturation, brightness, contrast) ==
    saturation # 100 \/ brightness # 100 \/ contrast # 100

\* the filters prop of the main sprite
mainFilters(s) ==
    LET blur == needsBlur(s.blur)
        color == needsColor(s.saturation, s.brightness, s.contrast)
    IN  IF ~blur /\ ~color THEN NoFilters
        ELSE [attached |-> TRUE,
              list |-> (IF blur THEN <<imageBlurFilter(s.blur)>> ELSE <<>>)
                       \o (IF color
                             THEN <<colorFilter(s.saturation, s.brightness, s.contrast)>>
                             ELSE <<>>)]

LayerOf(s) == [slotConfig |-> s, filters |-> mainFilters(s)]

InitLayer == layer = LayerOf(DEFAULT_SLOT_CONFIG)

\* ImageSlot renders with new effect values
renderMainLayer(blur, saturation, brightness, contrast) ==
    /\ layer' = LayerOf([DEFAULT_SLOT_CONFIG EXCEPT
                           !.blur = blur, !.saturation = saturation,
                           !.brightness = brightness, !.contrast = contrast])
    /\ UNCHANGED <<exportVars, textureVars, configVars, pureVars, randoms, pair>>

NextLayer ==
    \E blur \in BlurValues, saturation \in ColorValues,
       brightness \in ColorValues, contrast \in ColorValues :
        renderMainLayer(blur, saturation, brightness, contrast)

----------------------------------------------------------------------------
(* ImageSlot with its two useFadedTexture instances, and what it renders.
   The hook records and the effect are those of the masked texture hook
   above; object URLs and texture disposal are left to that model. *)

\* loadTexture calls of one hook instance
MaxPairLoads == 2

PairHooks == {"main", "glow"}
PairIds == 1..MaxPairLoads

\* image and zoom values a rendered slot takes here
PairSlots == [image : Images, size : {10}, zoom : ZoomValues]

\* what ImageSlot returns: the placeholder, or the two sprites with their textures
\* (texture 0 is undefined)
ImageSlotOutput_MainOnly(mainTexture, glowTexture) ==
    IF mainTexture = 0
      THEN [placeholder |-> TRUE, main |-> 0, glow |-> 0]
      ELSE [placeholder |-> FALSE, main |-> mainTexture, glow |-> glowTexture]
ImageSlotOutput(mainTexture, glowTexture) ==
    IF mainTexture = 0 \/ glowTexture = 0
      THEN [placeholder |-> TRUE, main |-> 0, glow |-> 0]
      ELSE [placeholder |-> FALSE, main |-> mainTexture, glow |-> glowTexture]

\* CoreSlot renders ImageSlot when the slot has an image, else the placeholder
SlotOutput(s, hooks) ==
    IF s.image = NoImage THEN [placeholder |-> TRUE, main |-> 0, glow |-> 0]
    ELSE ImageSlotOutput(hooks["main"].texture, hooks["glow"].texture)

PairOf(s, hooks, pending, resolved, next) ==
    [slot |-> s, hooks |-> hooks, loads |-> pending, resolved |-> resolved,
     nextId |-> next, shown |-> SlotOutput(s, hooks)]

InitPair ==
    pair = PairOf([image |-> NoImage, size |-> 10, zoom |-> 10],
                  [h \in PairHooks |-> FreshHook(0)], {}, {},
                  [h \in PairHooks |-> 1])

pairFrame == <<exportVars, textureVars, configVars, pureVars, randoms, layer>>

PairLoad(h, gen, s) ==
    [h |-> h, gen |-> gen, id |-> pair.nextId[h], key |-> Deps(h, s)]

\* an image is assigned to the empty slot: ImageSlot mounts, both effects run
mountPair(s) ==
    /\ pair.slot.image = NoImage
    /\ \A h \in PairHooks : pair.nextId[h] <= MaxPairLoads
    /\ pair' = PairOf(s,
                  [h \in PairHooks |->
                      AfterEffect(FreshHook(pair.hooks[h].gen + 1), Deps(h, s))],
                  pair.loads \cup {PairLoad(h, pair.hooks[h].gen + 1, s) : h \in PairHooks},
                  pair.resolved,
                  [h \in PairHooks |-> pair.nextId[h] + 1])
    /\ UNCHANGED pairFrame

\* image or zoom of the mounted slot changes: each hook runs the cleanup of
\* its previous effect and then its effect
changePair(s) ==
    /\ pair.slot.image # NoImage
    /\ s # pair.slot
    /\ LET starters == {h \in PairHooks :
                          /\ pair.hooks[h].deps # Deps(h, s)
                          /\ ~ShouldSkipEffect(s.image, pair.hooks[h].loadingRef)}
       IN  /\ \A h \in starters : pair.nextId[h] <= MaxPairLoads
           /\ pair' = PairOf(s,
                         [h \in PairHooks |->
                             IF pair.hooks[h].deps # Deps(h, s)
                               THEN AfterEffect(pair.hooks[h], Deps(h, s))
                               ELSE pair.hooks[h]],
                         pair.loads \cup {PairLoad(h, pair.hooks[h].gen, s) : h \in starters},
                         pair.resolved,
                         [h \in PairHooks |->
                             IF h \in starters THEN pair.nextId[h] + 1
                                               ELSE pair.nextId[h]])
    /\ UNCHANGED pairFrame

\* the image is cleared: ImageSlot unmounts and its state is dropped
unmountPair ==
    /\ pair.slot.image # NoImage
    /\ pair' = PairOf([pair.slot EXCEPT !.image = NoImage],
                      [h \in PairHooks |-> FreshHook(pair.hooks[h].gen)],
                      pair.loads, pair.resolved, pair.nextId)
    /\ UNCHANGED pairFrame

\* loadTexture of hook h settles: setTexture(tex), or no texture (image not
\* found, or an error caught); loadingRef.current = false
pairLoadSettles(h, i, ok) ==
    /\ \E l \in pair.loads : l.h = h /\ l.id = i
    /\ LET l == CHOOSE l \in pair.loads : l.h = h /\ l.id = i
           current == pair.slot.image # NoImage /\ pair.hooks[h].gen = l.gen
       IN  pair' = PairOf(pair.slot,
                      IF current
                        THEN [pair.hooks EXCEPT
                                ![h].loadingRef = FALSE,
                                ![h].texture = IF ok THEN i ELSE @]
                        ELSE pair.hooks,
                      pair.loads \ {l},
                      IF ok THEN pair.resolved \cup {l} ELSE pair.resolved,
                      pair.nextId)
    /\ UNCHANGED pairFrame

NextPair ==
    \/ \E s \in PairSlots : mountPair(s)
    \/ \E s \in PairSlots : changePair(s)
    \/ unmountPair
    \/ \E h \in PairHooks, i \in PairIds, ok \in BOOLEAN : pairLoadSettles(h, i, ok)

\* seededRandom, the filter list and the image slot at rest
InitRender == InitRandoms /\ InitLayer /\ InitPair

\* ---- the effect handlers on boards with customised slots -------------------

\* a slot whose effect fields all differ from the defaults
CUSTOM_SLOT_CONFIG ==
    [image |-> NoImage, size |-> 150, zoom |-> 200, opacity |-> 50, blur |-> 500,
     glowIntensity |-> 80, offsetX |-> 10, offsetY |-> -10, rotation |-> 45,
     saturation |-> 50, brightness |-> 150, contrast |-> 50,
     positionIndex |-> 0]

SlotVariants == {DEFAULT_SLOT_CONFIG, CUSTOM_SLOT_CONFIG}

\* boards with a core and dreams at positions 0 and 1, customised or not
EffectBoards ==
    {[core |-> With(c, "image", "imgA"),
      dreams |-> <<d0, With(With(d1, "positionIndex", 1), "image", "imgA")>>] :
        c \in SlotVariants, d0 \in SlotVariants, d1 \in SlotVariants}

InitEffects ==
    /\ InitExport /\ InitTexture
    /\ \E b \in EffectBoards : InitConfigWith(b, serialize(b))
    /\ InitMigration /\ InitViewport /\ InitScene /\ InitPixel
    /\ InitRender

\* reset, preset (any of EFFECT_PRESETS), copy and paste on any slot
NextEffects ==
    \/ \E s \in SlotIds : handleResetEffects(s)
    \/ \E s \in SlotIds : handleCopyEffects(s)
    \/ \E s \in SlotIds : handlePasteEffects(s)
    \/ \E s \in SlotIds, k \in 1..Len(EFFECT_PRESETS) : handleApplyPreset(s, k)

----------------------------------------------------------------------------
(* Specifications *)

Init ==
    /\ InitExport /\ InitTexture /\ InitConfig
    /\ InitMigration /\ InitViewport /\ InitScene /\ InitPixel
    /\ InitRender

\* the export pipeline with the texture hooks at rest
SpecExport == Init /\ [][NextExport]_vars

\* The steps of an export that the runtime takes by itself: the 50 ms and
\* 300 ms timers fire, and the synchronous body of exportCanvasAsImage runs
\* to its return or to its throw. Clicks, key presses, the pixi initialisation,
\* the progress interval and the toBlob task are not required to happen.
ExportFairness ==
    /\ \A r \in Requests : WF_vars(StartDownload(r)) /\ WF_vars(FinishRequest(r))
    /\ WF_vars(\E ok \in BOOLEAN : CreateRenderTexture(ok))
    /\ WF_vars(HideHud)
    /\ WF_vars(ScaleStage)
    /\ WF_vars(\E ok \in BOOLEAN : Render(ok))
    /\ WF_vars(RestoreStage)
    /\ WF_vars(\E ok \in BOOLEAN : ExtractCanvas(ok))
    /\ WF_vars(ToBlob)
    /\ WF_vars(ExportReturns)
    /\ WF_vars(ExportThrows)

\* the export pipeline with its timers and its synchronous body running on
SpecExportFair == Init /\ [][NextExport]_vars /\ ExportFairness

\* the texture hooks with the export pipeline at rest
SpecTexture == Init /\ [][NextTexture]_vars

\* the handlers of App editing the configuration, and the debounced save
InitBoard ==
    /\ InitExport /\ InitTexture
    /\ (InitConfig \/ InitConfigSaved)
    /\ InitMigration /\ InitViewport /\ InitScene /\ InitPixel
    /\ InitRender

SpecConfig == InitBoard /\ [][NextConfig]_vars

\* the mount effect loading any of the persisted documents
InitStored ==
    /\ InitExport /\ InitTexture /\ InitConfig
    /\ migration \in {MigrationOf(d) : d \in SavedDocuments \cup {NoDocument}}
    /\ InitViewport /\ InitScene /\ InitPixel
    /\ InitRender

SpecMigration == InitStored /\ [][NextMigration]_vars

\* the window mounted at any size and resized to any size
InitWindow ==
    /\ InitExport /\ InitTexture /\ InitConfig /\ InitMigration
    /\ \E w \in ViewportWidths, h \in ViewportHeights : InitViewportAt(w, h)
    /\ InitScene /\ InitPixel
    /\ InitRender

SpecViewport == InitWindow /\ [][NextViewport]_vars

\* the scene rendered for any two dream positions and any selection
SpecScene == Init /\ [][NextScene]_vars

\* createFadedTexture masking any of the pixels
InitCanvas ==
    /\ InitExport /\ InitTexture /\ InitConfig /\ InitMigration
    /\ InitViewport /\ InitScene
    /\ pixel \in MaskInputs
    /\ InitRender

SpecMask == InitCanvas /\ [][NextMask]_vars

\* the effect handlers of App on boards with customised slots
SpecEffects == InitEffects /\ [][NextEffects]_vars

\* seededRandom called repeatedly for any seed
InitSeeded ==
    /\ InitExport /\ InitTexture /\ InitConfig
    /\ InitMigration /\ InitViewport /\ InitScene /\ InitPixel
    /\ randoms \in RandomInputs
    /\ InitLayer /\ InitPair

SpecSeeded == InitSeeded /\ [][NextRandoms]_vars

\* ImageSlot rendered with any effect values
SpecLayer == Init /\ [][NextLayer]_vars

\* ImageSlot and its two texture hooks
SpecSlot == Init /\ [][NextPair]_vars

Next ==
    \/ NextExport \/ NextTexture \/ NextConfig
    \/ NextMigration \/ NextViewport \/ NextScene \/ NextMask
    \/ NextRandoms \/ NextLayer \/ NextPair

Spec == Init /\ [][Next]_vars

----------------------------------------------------------------------------
(* Properties of the export pipeline *)

\* the body of exportCanvasAsImage has run to its end or has thrown
ExportFinished == frame.phase \in {"finished", "threw"}

\* C1: after exportCanvasAsImage finishes in any way (its body ends or it
\* throws, also when render throws), the stage's scale and position equal the
\* values they had immediately before the call.
C1_TransformRestored == ExportFinished => stage = frame.pre

\* no node of the stage subtree that is a HUD element (zIndex >= 1000) is visible
NoHudVisible ==
    \A n \in Descendants("stage", selectedSlot) :
        zIndex(n, selectedSlot) >= HUD_ZINDEX => ~visible[n]

\* C2: during the offscreen render no node with zIndex >= 1000 is visible, and
\* after the export call returns (success or failure) every node's visibility
\* equals its visibility before the call.
C2_HudHiddenAndRestored ==
    /\ frame.phase = "scaled" => NoHudVisible
    /\ ExportFinished => visible = frame.preVisible

\* C3: an export triggered while the application handle is null is aborted
\* with an error that reaches the caller (the promise rejects), and no file is
\* produced.
C3_NullAppRejects ==
    \A r \in Requests :
        (req[r].appWasNull /\ req[r].promise # "none")
            => (req[r].promise = "rejected" /\ req[r].blob = "none" /\ ~req[r].clicked)

\* C4: when toBlob yields null the failure is surfaced to the caller of the
\* export as a rejected operation, and no download is triggered.
C4_NullBlobRejects ==
    \A r \in Requests :
        req[r].blob = "null" => (req[r].promise = "rejected" /\ ~req[r].clicked)

\* C5: the promise returned by the export entry point resolves only after the
\* download has been initiated (the anchor click); stated for the exports that
\* found the application handle set.
C5_ResolvesAfterDownload ==
    \A r \in Requests :
        (req[r].promise = "resolved" /\ ~req[r].appWasNull) => req[r].clicked

\* C6: at most one export is in flight at any time: between the start of
\* handleDownloadRequest and its finally block no second export is started.
C6_SingleExportInFlight == Cardinality(InFlight) <= 1

----------------------------------------------------------------------------
(* Properties of the texture hook *)

\* C7: the result of a build that was superseded while in flight (image id,
\* size or zoom changed) is never installed as the slot's texture, and the
\* texture it produced is destroyed.
C7_SupersededBuildDiscarded ==
    \A h \in Hooks : \A i \in Ids :
        (texs[h][i].status # "none" /\ texs[h][i].superseded)
            => /\ hook[h].texture # i
               /\ texs[h][i].status = "destroyed"

\* C8: for every hook instance at most one load is pending at any time.
C8_AtMostOnePendingLoad ==
    \A h \in Hooks : \A g \in 0..(2 * MaxLoads) :
        Cardinality({l \in loads : l.h = h /\ l.gen = g}) <= 1

\* C8 witness: the deps of a mounted hook changed while its load is pending,
\* and the effect that ran for the change issued no second load
C8_Witness ==
    \E h \in Hooks : \E l \in Pending(h) :
        /\ Mounted
        /\ hook[h].deps # l.key
        /\ hook[h].loadingRef

\* C9: with a non-null image id and loads that all succeed, once the changes
\* of image id, size and zoom stop the slot's texture is one built from the
\* current triple.  No step but a further change is enabled for a hook with no
\* pending load, so the texture a hook has then is the one it keeps.
C9_RegeneratedForCurrentProps ==
    \A h \in Hooks :
        (Mounted /\ ~loadFailed /\ Pending(h) = {})
            => /\ hook[h].texture # 0
               /\ texs[h][hook[h].texture].key = Deps(h, slot)

\* resource i of hook h is superseded by a newer one of the same instance, or
\* its instance has unmounted
Released(res, h, i) ==
    \/ ~Mounted
    \/ hook[h].gen # res[h][i].gen
    \/ \E j \in Ids : /\ j > i
                      /\ res[h][j].status # "none"
                      /\ res[h][j].gen = res[h][i].gen

\* C10: every texture and every object URL created by the hook has been
\* destroyed or revoked once it is superseded by a newer one or once the slot
\* has unmounted.
C10_NoLeak ==
    \A h \in Hooks : \A i \in Ids :
        /\ (texs[h][i].status = "live" => ~Released(texs, h, i))
        /\ (urls[h][i].status = "live" => ~Released(urls, h, i))

----------------------------------------------------------------------------
(* Properties of the configuration *)

PositionsDistinct(dreams) ==
    \A i, j \in 1..Len(dreams) :
        i # j => dreams[i].positionIndex # dreams[j].positionIndex

\* C11: whatever handlers have run, no two entries of config.dreams have the
\* same positionIndex, and config.core is a slot
C11_UniquePositions ==
    /\ PositionsDistinct(config.dreams)
    /\ DOMAIN config.core = SlotFields

\* two dream slots were added
C11_Witness ==
    /\ Len(config.dreams) = 2
    /\ edits = 2

----------------------------------------------------------------------------
(* Properties of loading a persisted document *)

HasField(saved, f) == f \in DOMAIN saved

\* the entries of a persisted dreams array; none when the key is absent or null
SavedEntries(doc) == IF HasField(doc.dreams, "items") THEN doc.dreams.items ELSE <<>>

\* the value a migrated slot is to hold in field f: the saved value, or the
\* default where the saved slot lacks the field (for positionIndex the default
\* position handed to migrateSlot)
Backfilled(saved, f, defaultPosition) ==
    IF HasField(saved, f) THEN saved[f]
    ELSE IF f = "positionIndex" THEN defaultPosition
    ELSE DEFAULT_SLOT_CONFIG[f]

\* C12: a loaded document has every field on the core and on every dream, the
\* saved value where the persisted slot had the field, the default otherwise
C12_MigrationBackfills ==
    (migration.loaded /\ migration.saved # NoDocument) =>
        LET doc == migration.saved
            cfg == migration.config
            entries == SavedEntries(doc)
        IN  /\ DOMAIN cfg.core = SlotFields
            /\ \A f \in SlotFields : cfg.core[f] = Backfilled(doc.core, f, -1)
            /\ Len(cfg.dreams) = Len(entries)
            /\ \A k \in 1..Len(entries) :
                  /\ DOMAIN cfg.dreams[k] = SlotFields
                  /\ \A f \in SlotFields :
                        cfg.dreams[k][f] = Backfilled(entries[k], f, k - 1)

\* a document without a core, with a null dream entry and with a dream saved
\* before the colour fields existed has been loaded
C12_Witness ==
    /\ migration.loaded
    /\ migration.saved # NoDocument
    /\ migration.saved.core = Missing
    /\ Len(SavedEntries(migration.saved)) = 2
    /\ SavedEntries(migration.saved)[1] = Null
    /\ DOMAIN SavedEntries(migration.saved)[2] =
          SlotFields \ {"saturation", "brightness", "contrast"}
    /\ migration.config.dreams[2].size = SavedValues.size
    /\ migration.config.dreams[2].saturation = DEFAULT_SLOT_CONFIG.saturation
    /\ migration.config.dreams[1].image = NoImage

\* the persisted dream entries that hold a positionIndex hold distinct ones
SavedPositionsDistinct(doc) ==
    LET entries == SavedEntries(doc)
    IN  \A i, j \in 1..Len(entries) :
            (i # j /\ HasField(entries[i], "positionIndex")
                   /\ HasField(entries[j], "positionIndex"))
            => entries[i].positionIndex # entries[j].positionIndex

\* C13: loading a document whose saved positions are distinct yields dreams
\* with pairwise distinct positionIndex, also when entries lack a
\* positionIndex and are given one
C13_MigrationKeepsPositionsDistinct ==
    (migration.loaded /\ migration.saved # NoDocument
        /\ SavedPositionsDistinct(migration.saved))
    => PositionsDistinct(migration.config.dreams)

----------------------------------------------------------------------------
(* Properties of the debounced save *)

\* C14: an edit is in memory at once and is handed to a restarted timeout, so
\* that one timeout is pending and it holds the configuration in memory; a
\* save happens only when SAVE_DELAY has passed since the last edit, it
\* writes the configuration held in memory and leaves no save pending
C14_TrailingEdgeSave ==
    [][/\ \A t \in timer'.pending : t.args = config'
       /\ Cardinality(timer'.pending) <= 1
       /\ (edits' # edits) =>
             timer'.pending = {[args |-> config', remaining |-> SAVE_DELAY]}
       /\ (saves' # saves \/ stored' # stored) =>
             /\ saves' = saves + 1
             /\ timer.quiet = SAVE_DELAY
             /\ stored' = serialize(config)
             /\ timer'.pending = {}]_vars

\* a burst of two edits was followed by one save, of the configuration in memory
C14_Witness ==
    /\ edits = 2
    /\ saves = 1
    /\ timer.pending = {}
    /\ stored = serialize(config)
    /\ config # InitialConfig

----------------------------------------------------------------------------
(* Properties of a failed texture load *)

\* the load of hook h with resource id i ends in this step without a texture
FailsNow(h, i) ==
    /\ \E l \in loads : l.h = h /\ l.id = i /\ IsCurrent(l)
    /\ loads' = loads \ {LoadOf(h, i)}
    /\ texs'[h][i].status = "none"

\* C15: when the load of a mounted slot fails, the slot is left without a
\* texture (it shows its placeholder), it can start a later load, and no other
\* hook's state changes
C15_FailedLoadShowsPlaceholder ==
    [][\A h \in Hooks, i \in Ids :
          FailsNow(h, i) =>
              /\ hook'[h].texture = 0
              /\ ~hook'[h].loadingRef
              /\ \A g \in Hooks \ {h} : hook'[g] = hook[g]]_vars

----------------------------------------------------------------------------
(* Properties of clearing the core *)

\* what CoreSlot renders inside its container
coreShows(cfg) ==
    IF cfg.core.image # NoImage THEN "ImageSlot" ELSE "EmptySlotPlaceholder"

\* the values a dream slot's texture hooks depend on
slotDeps(s) == <<s.image, s.size, s.zoom>>

\* C16: clear-slot on the core leaves a placeholder in the core and changes
\* no entry of config.dreams, so no dream slot's texture dependencies change
C16_ClearCoreLeavesDreams ==
    [][handleClearSlot("core") =>
          /\ coreShows(config') = "EmptySlotPlaceholder"
          /\ config'.dreams = config.dreams
          /\ \A k \in 1..Len(config.dreams) :
                slotDeps(config'.dreams[k]) = slotDeps(config.dreams[k])]_vars

\* the saved board's core image was cleared while its dream holds an image
C16_Witness ==
    /\ edits = 1
    /\ deletes.started = 0
    /\ stored = serialize(SavedBoard)
    /\ config.core.image = NoImage
    /\ Len(config.dreams) = 1
    /\ config.dreams[1].image = "imgA"

----------------------------------------------------------------------------
(* Properties of the viewport scale *)

\* C17: the scale is the least of (width - 320) / 1800, (height - 80) / 2400
\* and 1; it never exceeds 1, and it is 1 for a window of 2120 x 2480
C17_ViewportScale ==
    /\ FLeq(viewport.scale, Whole(1))
    /\ viewport.measured =>
          LET sx == Frac(viewport.width - 320, 1800)
              sy == Frac(viewport.height - 80, 2400)
          IN  /\ viewport.scale \in {sx, sy, Whole(1)}
              /\ FLeq(viewport.scale, sx)
              /\ FLeq(viewport.scale, sy)
    /\ (viewport.measured /\ viewport.width = 2120 /\ viewport.height = 2480)
          => viewport.scale = Whole(1)

\* a window of 2120 x 2480 has been measured
C17_Witness ==
    /\ viewport.measured
    /\ viewport.width = 2120
    /\ viewport.height = 2480
    /\ viewport.scale = Whole(1)

----------------------------------------------------------------------------
(* Properties of the stacking order *)

SceneDreams(sc) == {DreamId(sc.dreams[k]) : k \in 1..Len(sc.dreams)}

\* C18: a selected dream is painted over every unselected dream, the core
\* over every dream, and the selection ring over every slot of the scene
C18_StackingOrder ==
    /\ \A s \in SceneDreams(scene), t \in SceneDreams(scene) :
          (scene.selectedSlot = s /\ t # s)
          => contentPaintOrder(scene, s) > contentPaintOrder(scene, t)
    /\ \A s \in SceneDreams(scene) :
          contentPaintOrder(scene, "core") > contentPaintOrder(scene, s)
    /\ scene.selectedSlot # NoSlot =>
          \A t \in SceneDreams(scene) \cup {"core"} :
              ringPaintOrder(scene, scene.selectedSlot) > contentPaintOrder(scene, t)

----------------------------------------------------------------------------
(* Properties of the alpha mask *)

\* the radial ratios of the pixels explored, and their circular alpha
MaskRatios ==
    UNION {{radialRatio(s, p[1], p[2]) : p \in MaskPixels(s)} : s \in MaskSizes}
CircularAlphaAt == [r \in MaskRatios |-> circularAlpha(r)]

\* C19: the circular factor is 1 up to ratio 0.4, 0 from ratio 1.0, and does
\* not increase with the ratio; the output alpha is the floor of the source
\* alpha times the mask and does not exceed the source alpha
C19_CircularMask ==
    pixel.done =>
        /\ FLeq(pixel.ratio, Frac(4, 10)) => pixel.circularAlpha = Whole(1)
        /\ FLeq(Whole(1), pixel.ratio) => pixel.circularAlpha = Whole(0)
        /\ \A r \in MaskRatios :
              FLeq(pixel.ratio, r) => FLeq(CircularAlphaAt[r], pixel.circularAlpha)
        /\ pixel.alpha =
              Floor(FMul(Whole(pixel.src), FMul(pixel.circularAlpha, pixel.edgeAlpha)))
        /\ pixel.alpha <= pixel.src

\* an opaque pixel between the two radii has been masked to a lower alpha
C19_Witness ==
    /\ pixel.done
    /\ pixel.src = 255
    /\ FLess(Frac(4, 10), pixel.ratio)
    /\ FLess(pixel.ratio, Whole(1))
    /\ pixel.edgeAlpha = Whole(1)
    /\ 0 < pixel.alpha
    /\ pixel.alpha < 255

\* the pixel lies strictly outside the rectangle the image was drawn into
OutsideDrawnRect(px) ==
    LET r == drawnRect(px.size, px.img, px.zoom)
    IN  \/ FLess(Whole(px.px), r.x)
        \/ FLess(FAdd(r.x, r.w), Whole(px.px))
        \/ FLess(Whole(px.py), r.y)
        \/ FLess(FAdd(r.y, r.h), Whole(px.py))

\* C20: at zoom 0.5 a pixel strictly outside the drawn image rectangle has
\* final alpha 0, whatever its circular alpha is
C20_OutsideImageTransparent ==
    (pixel.done /\ pixel.zoom = 50 /\ OutsideDrawnRect(pixel)) =>
        /\ pixel.finalAlpha = Whole(0)
        /\ pixel.alpha = 0

\* an opaque pixel outside the image, inside the circle, has been masked
C20_Witness ==
    /\ pixel.done
    /\ pixel.zoom = 50
    /\ OutsideDrawnRect(pixel)
    /\ FLess(Whole(0), pixel.circularAlpha)
    /\ pixel.src = 255
    /\ pixel.alpha = 0

----------------------------------------------------------------------------
(* Properties of seededRandom *)

----------------------------------------------------------------------------
(* Properties of the main layer's filter list *)

HasStage(kind) ==
    \E k \in 1..Len(layer.filters.list) : layer.filters.list[k].kind = kind

\* C22: the main layer's filter list contains a blur stage if and only if the
\* configured blur is > 0, a color-adjustment stage if and only if saturation,
\* brightness or contrast differs from 1, the blur stage comes before the color
\* stage when both are present, and no filter list is attached when neither is
\* needed.
C22_MainFilterStages ==
    LET s == layer.slotConfig
        list == layer.filters.list
    IN  /\ HasStage("blur") <=> s.blur > 0
        /\ HasStage("color") <=>
              (s.saturation # 100 \/ s.brightness # 100 \/ s.contrast # 100)
        /\ (HasStage("blur") /\ HasStage("color")) =>
              (Len(list) = 2 /\ list[1].kind = "blur" /\ list[2].kind = "color")
        /\ layer.filters.attached <=> (HasStage("blur") \/ HasStage("color"))
        /\ ~layer.filters.attached => list = <<>>
        /\ Len(list) <= 2

\* a slot with blur and a changed contrast: both stages
C22_Witness ==
    /\ layer.slotConfig.blur > 0
    /\ layer.slotConfig.contrast # 100
    /\ Len(layer.filters.list) = 2

----------------------------------------------------------------------------
(* Properties of what an image slot shows while its textures load *)

\* the texture hook h returns was set by a finished load of the mounted instance
Resolved(h) ==
    \E l \in pair.resolved :
        /\ l.h = h
        /\ l.gen = pair.hooks[h].gen
        /\ pair.hooks[h].texture = l.id

----------------------------------------------------------------------------
(* Properties of the edge feather of an image larger than the canvas *)

\* the rectangle the image was drawn into reaches beyond the canvas on every side
ExceedsCanvas(px) ==
    LET r == drawnRect(px.size, px.img, px.zoom)
    IN  /\ FLess(r.x, Whole(0))
        /\ FLess(r.y, Whole(0))
        /\ FLess(Whole(px.size), FAdd(r.x, r.w))
        /\ FLess(Whole(px.size), FAdd(r.y, r.h))

\* the edge factor of the masked pixel is 1 and its final alpha is its
\* circular alpha
CircularMaskAlone ==
    /\ pixel.edgeAlpha = Whole(1)
    /\ pixel.finalAlpha = pixel.circularAlpha

\* C24, as stated: when the drawn image rectangle exceeds the canvas with
\* zoom >= 1.08, the edge-feather factor is 1 for every pixel of the canvas, so
\* the final alpha is determined by the circular mask alone.
C24_EdgeFactorOneFrom108 ==
    (pixel.done /\ pixel.zoom >= 108 /\ ExceedsCanvas(pixel)) => CircularMaskAlone

\* C24, amended: when the drawn image rectangle exceeds the canvas with
\* zoom >= 1.16 (the image overhangs each side of the canvas by at least the
\* feather of 8% of the size), the edge-feather factor is 1 for every pixel of
\* the canvas, so the final alpha is determined by the circular mask alone.
C24_EdgeFactorOneFrom116 ==
    (pixel.done /\ pixel.zoom >= 116 /\ ExceedsCanvas(pixel)) => CircularMaskAlone

\* a pixel next to the canvas border, inside the circle, masked at zoom 1.16
C24_Witness ==
    /\ pixel.done
    /\ pixel.zoom = 116
    /\ ExceedsCanvas(pixel)
    /\ pixel.px = 1
    /\ FLess(Whole(0), pixel.circularAlpha)
    /\ pixel.src = 255
    /\ pixel.edgeAlpha = Whole(1)
    /\ pixel.alpha > 0

----------------------------------------------------------------------------
(* Properties of an image delete that overlaps other edits *)

\* C25: no configuration update is lost to a stale snapshot: when
\* handleImageDelete completes, the configuration in memory, and the one handed
\* to the debounced save, is the configuration of that moment (with every edit
\* made while the storage delete was awaited) without the deleted image.
C25_NoLostUpdate ==
    [][\A id \in ConfigImages :
          imageDeleteSettles(id, TRUE) =>
              /\ config' = withoutImage(config, id)
              /\ \A t \in timer'.pending : t.args = withoutImage(config, id)]_vars

\* the slots of a configuration by slot id
slotById(cfg, slotId) == getSlotConfigById(cfg, slotId)

\* C26: after handleImageDelete(id) completes with a successful storage
\* delete, no slot has image id and id is not in the images list, while every
\* other field of every slot and the set of dream slots are unchanged.
C26_DeleteOnlyClearsImage ==
    [][\A id \in ConfigImages :
          imageDeleteSettles(id, TRUE) =>
              /\ id \notin images'
              /\ \A s \in slotsOf(config') : s.image # id
              /\ usedPositions(config') = usedPositions(config)
              /\ Len(config'.dreams) = Len(config.dreams)
              /\ \A slotId \in renderedSlots(config) :
                    \A f \in SlotFields :
                        slotById(config', slotId)[f] =
                            IF f = "image" /\ slotById(config, slotId).image = id
                              THEN NoImage
                              ELSE slotById(config, slotId)[f]]_vars

----------------------------------------------------------------------------
(* Properties of rejected add-slot and remove-slot calls *)

\* C27: adding a dream slot at a positionIndex that is in use, and removing a
\* dream slot at a positionIndex no dream slot has, change neither the
\* configuration, the selection, the pending debounced save nor the stored
\* document.
C27_RejectedAddRemoveAreNoOps ==
    [][\A p \in ConfigPositions :
          (\/ (handleAddSlot(p) /\ p \in usedPositions(config))
           \/ (handleRemoveSlot(p) /\ p \notin usedPositions(config)))
          => /\ config' = config
             /\ selectedSlot' = selectedSlot
             /\ timer' = timer
             /\ stored' = stored
             /\ saves' = saves]_vars

\* a call was rejected while a slot was selected and a save was pending
C27_Witness ==
    /\ rejected = 1
    /\ Len(config.dreams) >= 1
    /\ selectedSlot # NoSlot
    /\ timer.pending # {}

----------------------------------------------------------------------------
(* Properties of reset, preset and paste *)

\* slot slotId keeps image and positionIndex, every other slot is unchanged
OnlyEffectsOf(slotId) ==
    /\ Len(config'.dreams) = Len(config.dreams)
    /\ usedPositions(config') = usedPositions(config)
    /\ \A t \in renderedSlots(config) :
          IF t = slotId
            THEN /\ slotById(config', t).image = slotById(config, t).image
                 /\ slotById(config', t).positionIndex = slotById(config, t).positionIndex
            ELSE slotById(config', t) = slotById(config, t)

\* C28: reset-effects, apply-preset (each of the presets) and paste-effects on
\* a slot never change that slot's image or positionIndex nor any other slot;
\* after reset-effects the slot's effect fields equal the defaults, after
\* apply-preset the defaults overridden by the preset, whatever they were.
C28_EffectOpsFrame ==
    [][\A s \in SlotIds :
          /\ handleResetEffects(s) =>
                /\ OnlyEffectsOf(s)
                /\ \A f \in EffectFields :
                      slotById(config', s)[f] = DEFAULT_SLOT_CONFIG[f]
          /\ handlePasteEffects(s) => OnlyEffectsOf(s)
          /\ \A k \in 1..Len(EFFECT_PRESETS) :
                handleApplyPreset(s, k) =>
                    /\ OnlyEffectsOf(s)
                    /\ \A f \in EffectFields :
                          slotById(config', s)[f] =
                              IF f \in DOMAIN EFFECT_PRESETS[k]
                                THEN EFFECT_PRESETS[k][f]
                                ELSE DEFAULT_SLOT_CONFIG[f]]_vars

\* the fifth preset was applied to a customised core next to a customised dream
C28_Witness ==
    /\ edits = 1
    /\ config.core = Spread(With(DEFAULT_SLOT_CONFIG, "image", "imgA"), EFFECT_PRESETS[5])
    /\ config.dreams[1] = CUSTOM_SLOT_CONFIG
    /\ stored.core.zoom = CUSTOM_SLOT_CONFIG.zoom

----------------------------------------------------------------------------
(* Properties of the selection *)

\* C29: selectedSlot is null, "core", or "dream-k" for the positionIndex k of
\* a dream slot that exists; removing the selected dream slot clears the
\* selection and adding a slot selects it.
C29_SelectionExists ==
    [][/\ selectedSlot' \in renderedSlots(config') \cup {NoSlot}
       /\ \A p \in ConfigPositions :
             /\ (handleAddSlot(p) /\ p \notin usedPositions(config))
                   => selectedSlot' = DreamId(p)
             /\ (handleRemoveSlot(p) /\ selectedSlot = DreamId(p)
                     /\ p \in usedPositions(config))
                   => selectedSlot' = NoSlot]_vars

----------------------------------------------------------------------------
(* Properties of the export request *)

\* handleDownloadRequest has passed its finally block for request r, and the
\* application is as that block leaves it
Returned(r) ==
    /\ req[r].pc = "done"
    /\ ~isExporting
    /\ exportProgress = 0
    /\ r \notin intervals
    /\ TriggerReachable("pointer", isExporting)

\* C30: every export request eventually returns the application to the
\* non-exporting state: whether the download resolves or throws, isExporting
\* becomes false again, the progress timer of the request is cleared and the
\* progress value is reset to 0, so that a later export can be triggered.
C30_ExportEventuallyReturns ==
    \A r \in Requests : (req[r].pc # "unused") ~> Returned(r)

\* one request went through a throwing export and a second through a resolved
\* one, and both left the application non-exporting
C30_Witness ==
    /\ \E r \in Requests : Returned(r) /\ req[r].promise = "rejected"
    /\ \E r \in Requests : Returned(r) /\ req[r].promise = "resolved"
                                         /\ ~req[r].appWasNull

====
